---- MODULE Spec2Model ----
(***************************************************************************)
(* A model of sshmanager: the credential store (src/src/config.rs) and the *)
(* interactive session relay (run_shell in src/src/main.rs), the file      *)
(* transfer (run_sftp) and the interactive main loop (main, with           *)
(* src/src/app.rs).                                                        *)
(*                                                                         *)
(* SpecStore  : the Config API (load, save, add_server, remove_server)     *)
(*              over the on-disk file, across process runs.                *)
(* SpecRelay  : run_shell, its detached stdin reader thread, the remote    *)
(*              channel and the local terminal.                            *)
(* SpecRelayFair : SpecRelay with a fairly scheduled main thread.          *)
(* SpecSftp   : one run_sftp call, an upload or a download.                *)
(* SpecImport : import_ssh_config among loads, adds and removes.           *)
(* SpecMain   : main, from Config::load through the key-event loop.        *)
(***************************************************************************)
EXTENDS Integers, Sequences, FiniteSets, TLC

VARIABLES
    \* ---- credential store -------------------------------------------------
    file,             \* content of <config_dir>/ssh-manager/servers.json
    dirExists,        \* whether <config_dir>/ssh-manager exists
    cfgLive,          \* a Config value exists in the running process
    servers,          \* Config.servers
    master_password,  \* Config.master_password: <<>> is None, <<p>> is Some(p)
    result,           \* what the last store operation was given and returned
    saved,            \* history: <<>> or <<[servers, pass]>> of the last save that wrote
    tampered,         \* history: one byte of the saved file was changed since
    \* ---- session relay ----------------------------------------------------
    pc,               \* position of the main thread inside run_shell
    rawMode,          \* the terminal is in raw mode
    session,          \* number of run_shell calls started so far
    readers,          \* readers[s]: state of the stdin reader spawned by call s:
                      \*   pc, the byte in buf, and (history) the number of
                      \*   bytes it read after its run_shell call had returned
    handoff,          \* bytes sent on tx and not yet received on rx
    rxLive,           \* rx (the receiver of the current call) is not dropped
    stdin,            \* bytes typed and not yet read by any reader
    typed,            \* history: number of bytes typed so far
    stdinEof,         \* standard input reached end of file
    remoteOut,        \* bytes the remote side sent and the channel has not delivered
    remoteEof,        \* the remote side sent EOF on the channel
    chanRead,         \* outcome of the last channel.read of the pump loop
    closeRes,         \* outcome of channel.close / channel.wait_close
    stdout,           \* bytes written to local standard output by this call
    fed,              \* history: bytes the current call's reader read from stdin
    wrote,            \* history: bytes passed to channel.write before the remote's EOF
    writes,           \* history: bytes passed to channel.write by this call, all
    sent,             \* history: bytes the remote side put on the channel in this call
    ret,              \* how the last run_shell call returned
    \* ---- file transfer ----------------------------------------------------
    xpc,              \* position inside run_sftp
    direction,        \* "Upload" or "Download"
    srcLen,           \* number of bytes the source file delivers
    srcPos,           \* read offset in the source file
    buffer,           \* the chunk in buffer[..n] after a read
    dest,             \* content of the destination file, as runs of bytes
    pb,               \* the ProgressBar: position and number of finish calls
    chunks,           \* history: the n of every read that returned n > 0
    written,          \* history: bytes of the write_all calls that returned Ok
    eofSeen,          \* history: a read returned 0
    xret,             \* how run_sftp returned
    \* ---- main loop --------------------------------------------------------
    mainPc,           \* position inside main
    appServers,       \* App.servers
    input_mode,       \* App.input_mode
    focus,            \* App.focus
    auth_type_idx,    \* App.auth_type_idx
    selected,         \* App.list_state.selected(): <<>> is None, <<i>> is Some(i)
    should_quit,      \* App.should_quit
    should_connect,   \* App.should_connect
    sshConfig,        \* the Host entries of ~/.ssh/config, or what stands for none
    loaded,           \* history: the list Config::load returned to main
    lastSaved,        \* history: <<>> or <<list>>, the list of the last save call
    mainRet           \* how main returned

storeVars == <<file, dirExists, cfgLive, servers, master_password, result, saved, tampered>>
relayVars == <<pc, rawMode, session, readers, handoff, rxLive, stdin, typed, stdinEof,
               remoteOut, remoteEof, chanRead, closeRes, stdout, fed, wrote, writes,
               sent, ret>>
sftpVars == <<xpc, direction, srcLen, srcPos, buffer, dest, pb, chunks, written,
              eofSeen, xret>>
appVars == <<mainPc, appServers, input_mode, focus, auth_type_idx, selected,
             should_quit, should_connect, sshConfig, loaded, lastSaved, mainRet>>
vars == <<storeVars, relayVars, sftpVars, appVars>>

(***************************************************************************)
(* Bounds of the model.                                                    *)
(***************************************************************************)
MaxServers == 2
MaxInput == 2
MaxSessions == 2
MaxChunks == 3

(***************************************************************************)
(* Program constants.                                                      *)
(***************************************************************************)
SALT_LEN == 16
NONCE_LEN == 12
U16Max == 65535
ReadBufLen == 2048
BufferLen == 8192

(***************************************************************************)
(* Data: AuthType, Server, and the inputs the model draws from.            *)
(***************************************************************************)
Agent == <<"Agent">>
Password(p) == <<"Password", p>>
Key(p) == <<"Key", p>>

default_group == "General"

MkServer(n, u, h, p, a, g) ==
    [name |-> n, user |-> u, host |-> h, port |-> p, auth_type |-> a, group |-> g]

Db1 == MkServer("db1", "root", "10.0.0.5", 5432, Agent, "General")
Web == MkServer("web", "admin", "web.example", 22, Password("hunter2"), "Prod")
Bk == MkServer("bk", "ops", "bk.example", U16Max, Key("/home/ops/.ssh/id"), "Imported")

Profiles == {Db1, Web, Bk}
Passphrases == {"correct-horse", "wrong"}
RandomBytes == {0, 255}

None == <<>>
Some(x) == <<x>>

(***************************************************************************)
(* JSON values (serde_json).  A file is absent, text that is not JSON, or  *)
(* a JSON value; an object is a function from its keys to values.          *)
(***************************************************************************)
JStr(s) == [t |-> "str", v |-> s]
JNum(n) == [t |-> "num", v |-> n]
JObj(f) == [t |-> "obj", v |-> f]
JArr(s) == [t |-> "arr", v |-> s]
Absent == [t |-> "absent", v |-> 0]
NotJson == [t |-> "text", v |-> 0]

Err == [ok |-> FALSE]
Ok(x) == [ok |-> TRUE, val |-> x]

\* AuthToJson with the Key variant written under the Password tag.
AuthToJsonOneTag(a) ==
    IF a = Agent THEN JStr("Agent") ELSE JObj([Password |-> JStr(a[2])])

\* #[derive(Serialize)] of AuthType: externally tagged enum.
AuthToJson(a) ==
    IF a = Agent THEN JStr("Agent")
    ELSE IF a[1] = "Password" THEN JObj([Password |-> JStr(a[2])])
    ELSE JObj([Key |-> JStr(a[2])])

\* #[derive(Serialize)] of Server.
ServerToJson(s) ==
    JObj([name |-> JStr(s.name), user |-> JStr(s.user), host |-> JStr(s.host),
          port |-> JNum(s.port), auth_type |-> AuthToJson(s.auth_type),
          group |-> JStr(s.group)])

\* serde_json::to_string(&self.servers)
ServersToJson(list) == JArr([i \in DOMAIN list |-> ServerToJson(list[i])])

HasStr(o, k) == k \in DOMAIN o /\ o[k].t = "str"
HasU16(o, k) == k \in DOMAIN o /\ o[k].t = "num" /\ o[k].v \in 0..U16Max

\* #[derive(Deserialize)] of AuthType.
ParseAuthType(j) ==
    IF j.t = "str" THEN (IF j.v = "Agent" THEN Ok(Agent) ELSE Err)
    ELSE IF j.t = "obj" /\ DOMAIN j.v = {"Password"} /\ j.v["Password"].t = "str"
        THEN Ok(Password(j.v["Password"].v))
    ELSE IF j.t = "obj" /\ DOMAIN j.v = {"Key"} /\ j.v["Key"].t = "str"
        THEN Ok(Key(j.v["Key"].v))
    ELSE Err

\* #[derive(Deserialize)] of Server: unknown keys are ignored, group defaults.
ParseServer(j) ==
    IF /\ j.t = "obj"
       /\ HasStr(j.v, "name") /\ HasStr(j.v, "user") /\ HasStr(j.v, "host")
       /\ HasU16(j.v, "port")
       /\ "auth_type" \in DOMAIN j.v /\ ParseAuthType(j.v["auth_type"]).ok
       /\ ("group" \in DOMAIN j.v => j.v["group"].t = "str")
    THEN Ok(MkServer(j.v["name"].v, j.v["user"].v, j.v["host"].v, j.v["port"].v,
                     ParseAuthType(j.v["auth_type"]).val,
                     IF "group" \in DOMAIN j.v THEN j.v["group"].v ELSE default_group))
    ELSE Err

\* #[derive(Deserialize)] of LegacyServer: unknown keys are ignored.
ParseLegacyServer(j) ==
    IF /\ j.t = "obj"
       /\ HasStr(j.v, "name") /\ HasStr(j.v, "user") /\ HasStr(j.v, "host")
       /\ HasU16(j.v, "port")
    THEN Ok([name |-> j.v["name"].v, user |-> j.v["user"].v,
             host |-> j.v["host"].v, port |-> j.v["port"].v])
    ELSE Err

\* serde_json::from_str::<Vec<Server>>
ParseVecServer(c) ==
    IF c.t = "arr" /\ \A i \in DOMAIN c.v : ParseServer(c.v[i]).ok
    THEN Ok([i \in DOMAIN c.v |-> ParseServer(c.v[i]).val])
    ELSE Err

\* serde_json::from_str::<Vec<LegacyServer>>
ParseVecLegacy(c) ==
    IF c.t = "arr" /\ \A i \in DOMAIN c.v : ParseLegacyServer(c.v[i]).ok
    THEN Ok([i \in DOMAIN c.v |-> ParseLegacyServer(c.v[i]).val])
    ELSE Err

\* serde_json::from_str::<EncryptedConfig>
ParseEncryptedConfig(c) ==
    IF c.t = "obj" /\ HasStr(c.v, "salt") /\ HasStr(c.v, "nonce")
                   /\ HasStr(c.v, "ciphertext")
    THEN Ok([salt |-> c.v["salt"].v, nonce |-> c.v["nonce"].v,
             ciphertext |-> c.v["ciphertext"].v])
    ELSE Err

\* MigrateLegacy with the group of an imported profile.
MigrateLegacyImported(ls) == MkServer(ls.name, ls.user, ls.host, ls.port, Agent, "Imported")

\* The map of load's Legacy branch.
MigrateLegacy(ls) == MkServer(ls.name, ls.user, ls.host, ls.port, Agent, "General")

(***************************************************************************)
(* Text encoding of binary fields (base64, general_purpose::STANDARD).     *)
(* A text is a sequence of characters: one alphabet character per binary   *)
(* unit, a character outside the alphabet, or the padding character, which *)
(* is accepted only as the last one and then stands for no unit.           *)
(***************************************************************************)
B64(u) == [c |-> "b64", u |-> u]
\* ch replaced by a character outside the alphabet, by the padding character.
BadChar(ch) == [ch EXCEPT !.c = "bad"]
PadChar(ch) == [ch EXCEPT !.c = "pad"]

base64_encode(bytes) == [i \in DOMAIN bytes |-> B64(bytes[i])]

base64_decode(text) ==
    LET n == Len(text)
        body == IF n > 0 /\ text[n].c = "pad" THEN SubSeq(text, 1, n - 1) ELSE text
    IN IF \A i \in DOMAIN body : body[i].c = "b64"
       THEN Ok([i \in DOMAIN body |-> body[i].u])
       ELSE Err

(***************************************************************************)
(* PBKDF2-HMAC-SHA256 and AES-256-GCM, taken as ideal: the key is a        *)
(* collision-free function of (password, salt); a ciphertext is a body     *)
(* block and a tag block, and decrypts only under the key and nonce that   *)
(* made it.                                                                *)
(***************************************************************************)
\* derive_key with the password left out of the derivation.
derive_key_salt_only(password, salt) == [pw |-> "", salt |-> salt]

derive_key(password, salt) == [pw |-> password, salt |-> salt]

Block(kind, key, nonce, pt) == [blk |-> kind, k |-> key, n |-> nonce, pt |-> pt]
JunkBlock == Block("junk", derive_key("", <<>>), <<>>, JArr(<<>>))

Encrypt(key, nonce, pt) == <<Block("body", key, nonce, pt), Block("tag", key, nonce, pt)>>

Decrypt(key, nonce, ct) ==
    IF /\ Len(ct) = 2
       /\ ct[1].blk = "body" /\ ct[2].blk = "tag"
       /\ ct[1].k = key /\ ct[1].n = nonce
       /\ ct[2].k = key /\ ct[2].n = nonce /\ ct[2].pt = ct[1].pt
    THEN Ok(ct[1].pt)
    ELSE Err

(***************************************************************************)
(* Config::load                                                            *)
(***************************************************************************)
\* Exists with the check left out.
ExistsUnchecked(content) == TRUE

\* config_path.exists()
Exists(content) == content.t # "absent"

\* Detect with the Legacy shape tried before the Current one.
DetectLegacyFirst(content) ==
    IF ParseVecLegacy(content).ok THEN "legacy"
    ELSE IF ParseVecServer(content).ok THEN "current"
    ELSE IF ParseEncryptedConfig(content).ok THEN "encrypted"
    ELSE "none"

\* The cascade of load: which shape the content is read as.
Detect(content) ==
    IF ParseVecServer(content).ok THEN "current"
    ELSE IF ParseVecLegacy(content).ok THEN "legacy"
    ELSE IF ParseEncryptedConfig(content).ok THEN "encrypted"
    ELSE "none"

\* Loaded with the password typed at the prompt not kept.
LoadedForgetsPassword(res, list, mp, prompted) ==
    [res |-> res, servers |-> list, master_password |-> None, prompted |-> prompted]

\* What load returns: the error, or the Config and whether it prompted.
Loaded(res, list, mp, prompted) ==
    [res |-> res, servers |-> list, master_password |-> mp, prompted |-> prompted]

\* load from the Encrypted shape, with the password read at the prompt.
LoadEncrypted(content, password) ==
    LET enc == ParseEncryptedConfig(content).val
        salt == base64_decode(enc.salt)
        nonce_bytes == base64_decode(enc.nonce)
        ciphertext == base64_decode(enc.ciphertext)
    IN IF ~salt.ok \/ ~nonce_bytes.ok \/ ~ciphertext.ok
       THEN Loaded("DecodeError", <<>>, None, TRUE)
       ELSE IF Len(nonce_bytes.val) # NONCE_LEN
       THEN Loaded("Panic", <<>>, None, TRUE)
       ELSE LET plaintext == Decrypt(derive_key(password, salt.val),
                                     nonce_bytes.val, ciphertext.val)
            IN IF ~plaintext.ok
               THEN Loaded("AuthError", <<>>, None, TRUE)
               ELSE IF ~ParseVecServer(plaintext.val).ok
               THEN Loaded("JsonError", <<>>, None, TRUE)
               ELSE Loaded("Ok", ParseVecServer(plaintext.val).val, Some(password), TRUE)

\* Config::load on a file holding content; password is what the user types
\* if the prompt is reached.
LoadOutcome(content, password) ==
    IF ~Exists(content) THEN Loaded("Ok", <<>>, None, FALSE)
    ELSE CASE Detect(content) = "current" ->
                Loaded("Ok", ParseVecServer(content).val, None, FALSE)
           [] Detect(content) = "legacy" ->
                Loaded("Ok", [i \in DOMAIN content.v |->
                                 MigrateLegacy(ParseVecLegacy(content).val[i])],
                       None, FALSE)
           [] Detect(content) = "encrypted" -> LoadEncrypted(content, password)
           [] OTHER -> Loaded("FormatError", <<>>, None, FALSE)

Result(op, res, prompted, pw, pw2, idx) ==
    [op |-> op, res |-> res, prompted |-> prompted, pw |-> pw, pw2 |-> pw2, idx |-> idx]

\* Config::load, as it acts on the store.
LoadConfig(password) ==
    /\ ~cfgLive
    /\ LET out == LoadOutcome(file, password)
       IN /\ cfgLive' = (out.res = "Ok")
          /\ servers' = out.servers
          /\ master_password' = out.master_password
          /\ result' = Result("load", out.res, out.prompted,
                              IF out.prompted THEN password ELSE "", "", 0)
    /\ UNCHANGED <<file, dirExists, saved, tampered>>

\* Process start: main calls Config::load (main.rs:18).
Load(password) ==
    /\ LoadConfig(password)
    /\ UNCHANGED <<relayVars, sftpVars, appVars>>

(***************************************************************************)
(* Config::save                                                            *)
(***************************************************************************)
\* PromptNewPassword with the confirmation not compared.
PromptNewPasswordUnconfirmed(p1, p2) == Some(p1)

\* The two prompts of a first save: Some(p1) when they agree.
PromptNewPassword(p1, p2) == IF p1 # p2 THEN None ELSE Some(p1)

\* RandomFill with the buffer left as it was initialised.
RandomFillZeroed(len) == {[i \in 1..len |-> 0]}

\* OsRng.fill_bytes on a buffer of len bytes.
RandomFill(len) == {[i \in 1..len |-> b] : b \in RandomBytes}

\* EncryptedFile with only the profile added last as payload.
EncryptedFileLastOnly(list, password, salt, nonce_bytes) ==
    JObj([salt |-> JStr(base64_encode(salt)),
          nonce |-> JStr(base64_encode(nonce_bytes)),
          ciphertext |-> JStr(base64_encode(
              Encrypt(derive_key(password, salt), nonce_bytes,
                      ServersToJson(IF list = <<>> THEN <<>>
                                    ELSE <<list[Len(list)]>>))))])

\* The EncryptedConfig written by save, serialised.
EncryptedFile(list, password, salt, nonce_bytes) ==
    JObj([salt |-> JStr(base64_encode(salt)),
          nonce |-> JStr(base64_encode(nonce_bytes)),
          ciphertext |-> JStr(base64_encode(
              Encrypt(derive_key(password, salt), nonce_bytes, ServersToJson(list))))])

\* Config::save, as it acts on the store, called when self.servers is list;
\* p1 and p2 are what the user types if it prompts.
SaveConfig(list, p1, p2) ==
    /\ cfgLive
    /\ dirExists' = TRUE
    /\ servers' = list
    /\ LET prompt == master_password = None
           mp == IF prompt THEN PromptNewPassword(p1, p2) ELSE master_password
       IN IF mp = None
          THEN /\ result' = Result("save", "PassphraseMismatch", TRUE, p1, p2, 0)
               /\ UNCHANGED <<file, cfgLive, master_password, saved, tampered>>
          ELSE /\ master_password' = mp
               /\ \E salt \in RandomFill(SALT_LEN), nonce_bytes \in RandomFill(NONCE_LEN) :
                      file' = EncryptedFile(list, mp[1], salt, nonce_bytes)
               /\ saved' = <<[servers |-> list, pass |-> mp[1]]>>
               /\ tampered' = FALSE
               /\ result' = Result("save", "Ok", prompt,
                                   IF prompt THEN p1 ELSE "", IF prompt THEN p2 ELSE "", 0)
               /\ UNCHANGED cfgLive

Save(p1, p2) ==
    /\ SaveConfig(servers, p1, p2)
    /\ UNCHANGED <<relayVars, sftpVars, appVars>>

\* add_server that puts the profile first.
add_server_front(list, server) == <<server>> \o list

(***************************************************************************)
(* Config::add_server, Config::remove_server                               *)
(***************************************************************************)
add_server(list, server) == Append(list, server)

\* remove_server with the bound off by one.
remove_server_off_by_one(list, index) ==
    IF index <= Len(list) /\ Len(list) > 0
    THEN [i \in 1..(Len(list) - 1) |-> IF i <= index THEN list[i] ELSE list[i + 1]]
    ELSE list

\* index is a usize, counted from 0.
remove_server(list, index) ==
    IF index < Len(list)
    THEN [i \in 1..(Len(list) - 1) |-> IF i <= index THEN list[i] ELSE list[i + 1]]
    ELSE list

AddServer(server) ==
    /\ cfgLive
    /\ Len(servers) < MaxServers
    /\ servers' = add_server(servers, server)
    /\ result' = Result("add", "Ok", FALSE, "", "", 0)
    /\ UNCHANGED <<file, dirExists, cfgLive, master_password, saved, tampered>>
    /\ UNCHANGED <<relayVars, sftpVars, appVars>>

RemoveServer(index) ==
    /\ cfgLive
    /\ servers' = remove_server(servers, index)
    /\ result' = Result("remove", "Ok", FALSE, "", "", index)
    /\ UNCHANGED <<file, dirExists, cfgLive, master_password, saved, tampered>>
    /\ UNCHANGED <<relayVars, sftpVars, appVars>>

(***************************************************************************)
(* The environment of the store: the process ends (the Config is dropped), *)
(* and, between runs, one character of one field of the saved file may be  *)
(* changed.                                                                *)
(***************************************************************************)
Exit ==
    /\ cfgLive
    /\ cfgLive' = FALSE
    /\ servers' = <<>>
    /\ master_password' = None
    /\ result' = Result("exit", "Ok", FALSE, "", "", 0)
    /\ UNCHANGED <<file, dirExists, saved, tampered>>
    /\ UNCHANGED <<relayVars, sftpVars, appVars>>

\* Another character of the alphabet: another byte, or a block that is not the
\* one encrypt produced.
AlteredChar(fld, ch) ==
    IF fld = "ciphertext" THEN B64(JunkBlock) ELSE B64((ch.u + 1) % 256)

Tamper(fld, i) ==
    /\ ~cfgLive
    /\ saved # <<>>
    /\ ~tampered
    /\ i \in DOMAIN file.v[fld].v
    /\ \E ch \in {BadChar(file.v[fld].v[i]), PadChar(file.v[fld].v[i]),
                  AlteredChar(fld, file.v[fld].v[i])} :
           file' = JObj([file.v EXCEPT ![fld] = JStr([@.v EXCEPT ![i] = ch])])
    /\ tampered' = TRUE
    /\ result' = Result("tamper", "Ok", FALSE, "", "", 0)
    /\ UNCHANGED <<dirExists, cfgLive, servers, master_password, saved>>
    /\ UNCHANGED <<relayVars, sftpVars, appVars>>

(***************************************************************************)
(* The files a first run may find on disk.                                 *)
(***************************************************************************)
LegacyToJson(s) ==
    JObj([name |-> JStr(s.name), user |-> JStr(s.user), host |-> JStr(s.host),
          port |-> JNum(s.port)])

\* A Current record written before the group field existed.
UngroupedToJson(s) ==
    JObj([name |-> JStr(s.name), user |-> JStr(s.user), host |-> JStr(s.host),
          port |-> JNum(s.port), auth_type |-> AuthToJson(s.auth_type)])

\* A record whose auth_type names no variant of AuthType.
UnknownAuthToJson(s) ==
    JObj([name |-> JStr(s.name), user |-> JStr(s.user), host |-> JStr(s.host),
          port |-> JNum(s.port), auth_type |-> JStr("Certificate"),
          group |-> JStr(s.group)])

InitFiles ==
    { Absent, NotJson,
      JArr(<<>>),
      ServersToJson(<<Db1>>),
      ServersToJson(<<Web, Bk>>),
      JArr(<<UngroupedToJson(Web)>>),
      JArr(<<LegacyToJson(Db1), LegacyToJson(Web)>>),
      JArr(<<LegacyToJson(Bk)>>),
      JArr(<<UnknownAuthToJson(Web)>>),
      JArr(<<JObj([name |-> JStr("db1"), user |-> JStr("root"),
                   host |-> JStr("10.0.0.5"), port |-> JNum(U16Max + 1)])>>),
      JObj([salt |-> JStr(<<>>)]),
      JNum(7) }

RelayIdle ==
    /\ pc = "idle"
    /\ rawMode = FALSE
    /\ session = 0
    /\ readers = <<>>
    /\ handoff = <<>>
    /\ rxLive = FALSE
    /\ stdin = <<>>
    /\ typed = 0
    /\ stdinEof = FALSE
    /\ remoteOut = <<>>
    /\ remoteEof = FALSE
    /\ chanRead = "none"
    /\ closeRes = "none"
    /\ stdout = <<>>
    /\ fed = <<>>
    /\ wrote = <<>>
    /\ writes = <<>>
    /\ sent = <<>>
    /\ ret = "none"

StoreIdle ==
    /\ dirExists = FALSE
    /\ cfgLive = FALSE
    /\ servers = <<>>
    /\ master_password = None
    /\ result = Result("start", "Ok", FALSE, "", "", 0)
    /\ saved = <<>>
    /\ tampered = FALSE

SftpIdle ==
    /\ xpc = "idle"
    /\ direction = "Upload"
    /\ srcLen = 0
    /\ srcPos = 0
    /\ buffer = [off |-> 0, len |-> 0]
    /\ pb = [pos |-> 0, finished |-> 0]
    /\ chunks = <<>>
    /\ written = 0
    /\ eofSeen = FALSE
    /\ xret = "none"

MainIdle ==
    /\ mainPc = "start"
    /\ appServers = <<>>
    /\ input_mode = "Normal"
    /\ focus = "ServerList"
    /\ auth_type_idx = 0
    /\ selected = None
    /\ should_quit = FALSE
    /\ should_connect = None
    /\ sshConfig = <<>>
    /\ loaded = <<>>
    /\ lastSaved = <<>>
    /\ mainRet = "none"

InitStore ==
    /\ file \in InitFiles
    /\ StoreIdle
    /\ RelayIdle
    /\ SftpIdle /\ dest = <<>>
    /\ MainIdle

\* What may be typed at the prompts of an operation: a passphrase where the
\* operation prompts, nothing where it does not.
Typed(prompts) == IF prompts THEN Passphrases ELSE {""}

NextStore ==
    \/ \E password \in Typed(Detect(file) = "encrypted") : Load(password)
    \/ \E p1 \in Typed(master_password = None), p2 \in Typed(master_password = None) :
           Save(p1, p2)
    \/ \E server \in Profiles : AddServer(server)
    \/ \E index \in 0..MaxServers : RemoveServer(index)
    \/ Exit

SpecStore == InitStore /\ [][NextStore]_vars

\* The store with a file that may be tampered with between runs.
NextTamper ==
    \/ NextStore
    \/ \E fld \in {"salt", "nonce", "ciphertext"}, i \in 1..SALT_LEN : Tamper(fld, i)

SpecTamper == InitStore /\ [][NextTamper]_vars

(***************************************************************************)
(* run_shell (main.rs:178-223): the main thread.                           *)
(*                                                                         *)
(* pc: "idle"  not inside run_shell                                        *)
(*     "drain" at the while-let over rx.try_recv()          (line 204)     *)
(*     "read"  at channel.read                              (line 208)     *)
(*     "eof"   at the channel.eof() test after the match    (line 215)     *)
(*     "close" at channel.close()                           (line 219)     *)
(*     "wait"  at channel.wait_close()                      (line 220)     *)
(***************************************************************************)
InputBytes == {97, 98}

Min(a, b) == IF a < b THEN a ELSE b

\* channel.eof() that looks at the remote's EOF alone.
ChannelEofQueued == remoteEof

\* channel.eof() that looks at the queue alone.
ChannelEofNoData == remoteOut = <<>>

\* channel.eof(): the remote sent EOF and no data of the channel is queued.
ChannelEof == remoteEof /\ remoteOut = <<>>

\* channel_session, request_pty or shell failed: run_shell returns the error
\* before touching the terminal.
StartShellFail ==
    /\ pc = "idle"
    /\ session < MaxSessions
    /\ ret' = "Err"
    /\ UNCHANGED <<pc, rawMode, session, readers, handoff, rxLive, stdin, typed,
                   stdinEof, remoteOut, remoteEof, chanRead, closeRes, stdout, fed, wrote, writes, sent>>
    /\ UNCHANGED <<storeVars, sftpVars, appVars>>

\* Lines 179-201: the channel is open, raw mode is on, the session is
\* non-blocking, the reader thread is spawned.
StartShell ==
    /\ pc = "idle"
    /\ session < MaxSessions
    /\ session' = session + 1
    /\ rawMode' = TRUE
    /\ readers' = Append(readers, [pc |-> "read", buf |-> 0, late |-> 0])
    /\ handoff' = <<>>
    /\ rxLive' = TRUE
    /\ remoteOut' = <<>>
    /\ remoteEof' = FALSE
    /\ chanRead' = "none"
    /\ closeRes' = "none"
    /\ stdout' = <<>>
    /\ fed' = <<>>
    /\ wrote' = <<>>
    /\ writes' = <<>>
    /\ sent' = <<>>
    /\ ret' = "running"
    /\ pc' = "drain"
    /\ UNCHANGED <<stdin, typed, stdinEof>>
    /\ UNCHANGED <<storeVars, sftpVars, appVars>>

\* What the remote side does with a byte the channel accepted: it echoes it,
\* unless it has already sent EOF.
Echo(byte) == IF remoteEof THEN remoteOut ELSE Append(remoteOut, byte)

\* Lines 204-206, one turn of the while-let: a byte is received and written
\* to the channel; the result of the write is discarded.
DrainByte ==
    /\ pc = "drain"
    /\ handoff # <<>>
    /\ handoff' = Tail(handoff)
    /\ wrote' = IF remoteEof THEN wrote ELSE Append(wrote, Head(handoff))
    /\ writes' = Append(writes, Head(handoff))
    /\ \/ /\ remoteOut' = Echo(Head(handoff))   \* the write was accepted
          /\ sent' = IF remoteEof THEN sent ELSE Append(sent, Head(handoff))
       \/ /\ remoteOut' = remoteOut             \* the write was refused
          /\ sent' = sent
    /\ UNCHANGED <<pc, rawMode, session, readers, rxLive, stdin, typed, stdinEof,
                   remoteEof, chanRead, closeRes, stdout, fed, ret>>
    /\ UNCHANGED <<storeVars, sftpVars, appVars>>

\* DrainDone that goes on to channel.read with bytes still queued.
DrainDoneEarly ==
    /\ pc = "drain"
    /\ pc' = "read"
    /\ UNCHANGED <<rawMode, session, readers, handoff, rxLive, stdin, typed, stdinEof,
                   remoteOut, remoteEof, chanRead, closeRes, stdout, fed, wrote, writes,
                   sent, ret>>
    /\ UNCHANGED <<storeVars, sftpVars, appVars>>

\* Line 204: try_recv finds the channel empty.
DrainDone ==
    /\ pc = "drain"
    /\ handoff = <<>>
    /\ pc' = "read"
    /\ UNCHANGED <<rawMode, session, readers, handoff, rxLive, stdin, typed, stdinEof,
                   remoteOut, remoteEof, chanRead, closeRes, stdout, fed, wrote, writes, sent, ret>>
    /\ UNCHANGED <<storeVars, sftpVars, appVars>>

\* run_shell returns: rx and the channel are dropped.
Return(how) ==
    /\ pc' = "idle"
    /\ ret' = how
    /\ rxLive' = FALSE
    /\ handoff' = <<>>

\* Line 210: Ok(n) with n > 0, written to stdout and flushed.
ReadData ==
    /\ pc = "read"
    /\ \E n \in 1..Min(Len(remoteOut), ReadBufLen) :
           /\ stdout' = stdout \o SubSeq(remoteOut, 1, n)
           /\ remoteOut' = SubSeq(remoteOut, n + 1, Len(remoteOut))
    /\ chanRead' = "data"
    /\ pc' = "eof"
    /\ UNCHANGED <<rawMode, session, readers, handoff, rxLive, stdin, typed, stdinEof,
                   remoteEof, closeRes, fed, wrote, writes, sent, ret>>
    /\ UNCHANGED <<storeVars, sftpVars, appVars>>

\* Line 210: Ok(n) with n > 0, and write_all or flush fails: `?` returns.
ReadDataStdoutFails ==
    /\ pc = "read"
    /\ \E n \in 1..Min(Len(remoteOut), ReadBufLen) :
           remoteOut' = SubSeq(remoteOut, n + 1, Len(remoteOut))
    /\ chanRead' = "data"
    /\ Return("Err")
    /\ UNCHANGED <<rawMode, session, readers, stdin, typed, stdinEof,
                   remoteEof, closeRes, stdout, fed, wrote, writes, sent>>
    /\ UNCHANGED <<storeVars, sftpVars, appVars>>

\* Line 211: nothing queued and no EOF yet.
ReadWouldBlock ==
    /\ pc = "read"
    /\ remoteOut = <<>> /\ ~remoteEof
    /\ chanRead' = "wouldblock"
    /\ pc' = "eof"
    /\ UNCHANGED <<rawMode, session, readers, handoff, rxLive, stdin, typed, stdinEof,
                   remoteOut, remoteEof, closeRes, stdout, fed, wrote, writes, sent, ret>>
    /\ UNCHANGED <<storeVars, sftpVars, appVars>>

\* Line 209: Ok(0) at EOF: break.
ReadZero ==
    /\ pc = "read"
    /\ ChannelEof
    /\ chanRead' = "zero"
    /\ pc' = "close"
    /\ UNCHANGED <<rawMode, session, readers, handoff, rxLive, stdin, typed, stdinEof,
                   remoteOut, remoteEof, closeRes, stdout, fed, wrote, writes, sent, ret>>
    /\ UNCHANGED <<storeVars, sftpVars, appVars>>

\* Line 212: any other error of channel.read is returned.
ReadError ==
    /\ pc = "read"
    /\ chanRead' = "error"
    /\ Return("Err")
    /\ UNCHANGED <<rawMode, session, readers, stdin, typed, stdinEof,
                   remoteOut, remoteEof, closeRes, stdout, fed, wrote, writes, sent>>
    /\ UNCHANGED <<storeVars, sftpVars, appVars>>

\* Lines 215-216: break at EOF, else sleep and loop.
EofCheck ==
    /\ pc = "eof"
    /\ pc' = IF ChannelEof THEN "close" ELSE "drain"
    /\ UNCHANGED <<rawMode, session, readers, handoff, rxLive, stdin, typed, stdinEof,
                   remoteOut, remoteEof, chanRead, closeRes, stdout, fed, wrote, writes, sent, ret>>
    /\ UNCHANGED <<storeVars, sftpVars, appVars>>

\* Line 219: let _ = channel.close().
ChannelClose ==
    /\ pc = "close"
    /\ closeRes' \in {"ok", "failed"}
    /\ pc' = "wait"
    /\ UNCHANGED <<rawMode, session, readers, handoff, rxLive, stdin, typed, stdinEof,
                   remoteOut, remoteEof, chanRead, stdout, fed, wrote, writes, sent, ret>>
    /\ UNCHANGED <<storeVars, sftpVars, appVars>>

\* WaitCloseAndReturn on a blocking session whose remote never acknowledges.
WaitCloseBlocks ==
    /\ pc = "wait"
    /\ UNCHANGED relayVars
    /\ UNCHANGED <<storeVars, sftpVars, appVars>>

\* Lines 220-222: let _ = channel.wait_close(); disable_raw_mode()?; Ok(()).
WaitCloseAndReturn ==
    /\ pc = "wait"
    /\ closeRes' \in {closeRes, "failed"}
    /\ rawMode' = FALSE
    /\ Return("Ok")
    /\ UNCHANGED <<session, readers, stdin, typed, stdinEof,
                   remoteOut, remoteEof, chanRead, stdout, fed, wrote, writes, sent>>
    /\ UNCHANGED <<storeVars, sftpVars, appVars>>

(***************************************************************************)
(* The reader thread of call s (main.rs:188-198).  It is detached: nothing *)
(* stops it when run_shell returns.                                        *)
(***************************************************************************)
\* Its tx still has a receiver.
Connected(s) == s = session /\ rxLive

\* stdin.read returned Ok(1).
ReaderRead(s) ==
    /\ readers[s].pc = "read"
    /\ stdin # <<>>
    /\ readers' = [readers EXCEPT ![s] =
                       [pc |-> "send", buf |-> Head(stdin),
                        late |-> IF Connected(s) THEN @.late ELSE @.late + 1]]
    /\ stdin' = Tail(stdin)
    /\ fed' = IF Connected(s) THEN Append(fed, Head(stdin)) ELSE fed
    /\ UNCHANGED <<pc, rawMode, session, handoff, rxLive, typed, stdinEof,
                   remoteOut, remoteEof, chanRead, closeRes, stdout, wrote, writes, sent, ret>>
    /\ UNCHANGED <<storeVars, sftpVars, appVars>>

\* stdin.read returned Ok(0): break.
ReaderEof(s) ==
    /\ readers[s].pc = "read"
    /\ stdin = <<>> /\ stdinEof
    /\ readers' = [readers EXCEPT ![s].pc = "stopped", ![s].buf = 0]
    /\ UNCHANGED <<pc, rawMode, session, handoff, rxLive, stdin, typed, stdinEof,
                   remoteOut, remoteEof, chanRead, closeRes, stdout, fed, wrote, writes, sent, ret>>
    /\ UNCHANGED <<storeVars, sftpVars, appVars>>

\* stdin.read returned an error: break.
ReaderError(s) ==
    /\ readers[s].pc = "read"
    /\ readers' = [readers EXCEPT ![s].pc = "stopped", ![s].buf = 0]
    /\ UNCHANGED <<pc, rawMode, session, handoff, rxLive, stdin, typed, stdinEof,
                   remoteOut, remoteEof, chanRead, closeRes, stdout, fed, wrote, writes,
                   sent, ret>>
    /\ UNCHANGED <<storeVars, sftpVars, appVars>>

\* ReaderSend that goes back to stdin.read when the send fails.
ReaderSendGoesOn(s) ==
    /\ readers[s].pc = "send"
    /\ handoff' = IF Connected(s) THEN Append(handoff, readers[s].buf) ELSE handoff
    /\ readers' = [readers EXCEPT ![s].pc = "read", ![s].buf = 0]
    /\ UNCHANGED <<pc, rawMode, session, rxLive, stdin, typed, stdinEof,
                   remoteOut, remoteEof, chanRead, closeRes, stdout, fed, wrote, writes,
                   sent, ret>>
    /\ UNCHANGED <<storeVars, sftpVars, appVars>>

\* tx.send(buf[0]): the byte is queued, or the receiver is gone and the
\* thread breaks.
ReaderSend(s) ==
    /\ readers[s].pc = "send"
    /\ IF Connected(s)
       THEN /\ handoff' = Append(handoff, readers[s].buf)
            /\ readers' = [readers EXCEPT ![s].pc = "read", ![s].buf = 0]
       ELSE /\ handoff' = handoff
            /\ readers' = [readers EXCEPT ![s].pc = "stopped", ![s].buf = 0]
    /\ UNCHANGED <<pc, rawMode, session, rxLive, stdin, typed, stdinEof,
                   remoteOut, remoteEof, chanRead, closeRes, stdout, fed, wrote, writes, sent, ret>>
    /\ UNCHANGED <<storeVars, sftpVars, appVars>>

(***************************************************************************)
(* The environment of the relay: the user types, standard input ends, the  *)
(* remote side ends the channel.                                           *)
(***************************************************************************)
Type(byte) ==
    /\ typed < MaxInput
    /\ ~stdinEof
    /\ stdin' = Append(stdin, byte)
    /\ typed' = typed + 1
    /\ UNCHANGED <<pc, rawMode, session, readers, handoff, rxLive, stdinEof,
                   remoteOut, remoteEof, chanRead, closeRes, stdout, fed, wrote, writes, sent, ret>>
    /\ UNCHANGED <<storeVars, sftpVars, appVars>>

StdinEnds ==
    /\ ~stdinEof
    /\ stdinEof' = TRUE
    /\ UNCHANGED <<pc, rawMode, session, readers, handoff, rxLive, stdin, typed,
                   remoteOut, remoteEof, chanRead, closeRes, stdout, fed, wrote, writes, sent, ret>>
    /\ UNCHANGED <<storeVars, sftpVars, appVars>>

RemoteSendsEof ==
    /\ pc # "idle"
    /\ ~remoteEof
    /\ remoteEof' = TRUE
    /\ UNCHANGED <<pc, rawMode, session, readers, handoff, rxLive, stdin, typed,
                   stdinEof, remoteOut, chanRead, closeRes, stdout, fed, wrote, writes, sent, ret>>
    /\ UNCHANGED <<storeVars, sftpVars, appVars>>

InitRelay ==
    /\ file = Absent
    /\ StoreIdle
    /\ RelayIdle
    /\ SftpIdle /\ dest = <<>>
    /\ MainIdle

NextRelay ==
    \/ StartShellFail
    \/ StartShell
    \/ DrainByte
    \/ DrainDone
    \/ ReadData
    \/ ReadDataStdoutFails
    \/ ReadWouldBlock
    \/ ReadZero
    \/ ReadError
    \/ EofCheck
    \/ ChannelClose
    \/ WaitCloseAndReturn
    \/ \E s \in DOMAIN readers : ReaderRead(s)
    \/ \E s \in DOMAIN readers : ReaderEof(s)
    \/ \E s \in DOMAIN readers : ReaderError(s)
    \/ \E s \in DOMAIN readers : ReaderSend(s)
    \/ \E byte \in InputBytes : Type(byte)
    \/ StdinEnds
    \/ RemoteSendsEof

SpecRelay == InitRelay /\ [][NextRelay]_vars

\* The steps of the main thread from the pump loop to the return of
\* run_shell.  The session is non-blocking (line 184) and the loop sleeps
\* 5 ms per turn, so the thread is never blocked: whenever it is inside
\* run_shell it has a next step, and a scheduler that runs it takes it.
MainThread ==
    \/ DrainByte
    \/ DrainDone
    \/ ReadData
    \/ ReadDataStdoutFails
    \/ ReadWouldBlock
    \/ ReadZero
    \/ ReadError
    \/ EofCheck
    \/ ChannelClose
    \/ WaitCloseAndReturn

\* The relay with a fairly scheduled main thread.  Nothing is assumed of the
\* reader threads, of the user or of the remote side.
SpecRelayFair == InitRelay /\ [][NextRelay]_vars /\ WF_vars(MainThread)

(***************************************************************************)
(* run_sftp (main.rs:225-286): one upload or download.                     *)
(*                                                                         *)
(* A file is a sequence of runs [data, off, len]: len bytes of data, from  *)
(* its offset off on.  data is "src" for the bytes of the source file and  *)
(* "old" for what the destination held before.  Adjacent runs that follow  *)
(* each other in the source are one run.                                   *)
(*                                                                         *)
(* xpc: "idle"  not inside run_sftp                                        *)
(*      "read"  at file.read / remote_file.read     (lines 251, 276)       *)
(*      "write" at write_all                        (lines 253, 278)       *)
(***************************************************************************)
SourceSizes == {0, 1, BufferLen, BufferLen + 1, 2 * BufferLen}

\* The first n bytes of the source file.
Content(n) == IF n = 0 THEN <<>> ELSE <<[data |-> "src", off |-> 0, len |-> n]>>

OldData == <<[data |-> "old", off |-> 0, len |-> 1]>>

\* Slice with the whole buffer taken.
SliceWholeBuffer(b, n) == [data |-> "src", off |-> b.off, len |-> BufferLen]

\* &buffer[..n], where the buffer was filled from offset b.off of the source.
Slice(b, n) == [data |-> "src", off |-> b.off, len |-> n]

\* The file d with the bytes e written at its end.
WriteBytes(d, e) ==
    IF e.len = 0 THEN d
    ELSE IF d # <<>> /\ d[Len(d)].data = e.data /\ d[Len(d)].off + d[Len(d)].len = e.off
    THEN [d EXCEPT ![Len(d)].len = @ + e.len]
    ELSE Append(d, e)

RECURSIVE DestLen(_)
DestLen(d) == IF d = <<>> THEN 0 ELSE d[1].len + DestLen(Tail(d))

\* Inc with the length of the buffer added.
IncBufferLen(p, n) == [p EXCEPT !.pos = @ + BufferLen]

\* pb.inc(n)
Inc(p, n) == [p EXCEPT !.pos = @ + n]

\* What a read into the buffer may return when rem bytes are left: all that
\* fits, or less.
ReadSizes(rem) == {Min(rem, 1), Min(rem, BufferLen \div 2), Min(rem, BufferLen)}

\* FailedWrite with the destination emptied.
FailedWriteRollsBack(d, b, k) == <<>>

\* write_all returned an error after k bytes of the chunk were written.
FailedWrite(d, b, k) == WriteBytes(d, Slice(b, k))

\* sess.sftp(), File::open, metadata, sftp.open, stat, sftp.create or
\* File::create failed: `?` returns before the loop.
SftpStartFail(dir) ==
    /\ xpc = "idle" /\ xret = "none"
    /\ direction' = dir
    /\ xret' = "OpenError"
    /\ UNCHANGED <<xpc, srcLen, srcPos, buffer, dest, pb, chunks, written, eofSeen>>
    /\ UNCHANGED <<storeVars, relayVars, appVars>>

\* Lines 234-249 and 258-274: both files are open, the destination is
\* created or truncated, the progress bar is new.
SftpStart(dir, size) ==
    /\ xpc = "idle" /\ xret = "none"
    /\ direction' = dir
    /\ srcLen' = size
    /\ srcPos' = 0
    /\ dest' = <<>>
    /\ pb' = [pos |-> 0, finished |-> 0]
    /\ xret' = "running"
    /\ xpc' = "read"
    /\ UNCHANGED <<buffer, chunks, written, eofSeen>>
    /\ UNCHANGED <<storeVars, relayVars, appVars>>

\* Lines 251 and 276: the read returned n > 0.
ReadChunk ==
    /\ xpc = "read"
    /\ srcPos < srcLen
    /\ Len(chunks) < MaxChunks
    /\ \E n \in ReadSizes(srcLen - srcPos) :
           /\ buffer' = [off |-> srcPos, len |-> n]
           /\ srcPos' = srcPos + n
           /\ chunks' = Append(chunks, n)
    /\ xpc' = "write"
    /\ UNCHANGED <<direction, srcLen, dest, pb, written, eofSeen, xret>>
    /\ UNCHANGED <<storeVars, relayVars, appVars>>

\* Lines 252, 256 and 285 (277, 281): the read returned 0: break,
\* finish_with_message, Ok(()).
ReadEnd ==
    /\ xpc = "read"
    /\ srcPos = srcLen
    /\ eofSeen' = TRUE
    /\ pb' = [pb EXCEPT !.finished = @ + 1]
    /\ xret' = "Ok"
    /\ xpc' = "idle"
    /\ UNCHANGED <<direction, srcLen, srcPos, buffer, dest, chunks, written>>
    /\ UNCHANGED <<storeVars, relayVars, appVars>>

\* Lines 251 and 276: the read returned an error.
ReadFails ==
    /\ xpc = "read"
    /\ xret' = "ReadError"
    /\ xpc' = "idle"
    /\ UNCHANGED <<direction, srcLen, srcPos, buffer, dest, pb, chunks, written, eofSeen>>
    /\ UNCHANGED <<storeVars, relayVars, appVars>>

\* Lines 253-254 and 278-279: write_all returned Ok, then pb.inc(n).
WriteChunk ==
    /\ xpc = "write"
    /\ dest' = WriteBytes(dest, Slice(buffer, buffer.len))
    /\ written' = written + buffer.len
    /\ pb' = Inc(pb, buffer.len)
    /\ xpc' = "read"
    /\ UNCHANGED <<direction, srcLen, srcPos, buffer, chunks, eofSeen, xret>>
    /\ UNCHANGED <<storeVars, relayVars, appVars>>

\* Lines 253 and 278: write_all returned an error.  It writes until all of
\* the chunk is written or a write fails, so a part of the chunk may be in
\* the destination.
WriteFails ==
    /\ xpc = "write"
    /\ \E k \in {0, buffer.len \div 2} : dest' = FailedWrite(dest, buffer, k)
    /\ xret' = "WriteError"
    /\ xpc' = "idle"
    /\ UNCHANGED <<direction, srcLen, srcPos, buffer, pb, chunks, written, eofSeen>>
    /\ UNCHANGED <<storeVars, relayVars, appVars>>

InitSftp ==
    /\ file = Absent
    /\ StoreIdle
    /\ RelayIdle
    /\ SftpIdle /\ dest \in {<<>>, OldData}
    /\ MainIdle

NextSftp ==
    \/ \E dir \in {"Upload", "Download"} : SftpStartFail(dir)
    \/ \E dir \in {"Upload", "Download"}, size \in SourceSizes : SftpStart(dir, size)
    \/ ReadChunk
    \/ ReadEnd
    \/ ReadFails
    \/ WriteChunk
    \/ WriteFails

SpecSftp == InitSftp /\ [][NextSftp]_vars

(***************************************************************************)
(* Config::import_ssh_config (config.rs:180-231).  ~/.ssh/config is its     *)
(* Host lines in order, each with what config.query returns for the alias. *)
(***************************************************************************)
HostEntry(alias, star, host_name, user, port, identity_file) ==
    [alias |-> alias, star |-> star, host_name |-> host_name, user |-> user,
     port |-> port, identity_file |-> identity_file]

StarHost == HostEntry("*", TRUE, None, Some("ops"), None, None)
WebHost == HostEntry("web", FALSE, Some("web.example"), None, Some(2222),
                     Some("~/.ssh/id_web"))
Db1Host == HostEntry("db1", FALSE, None, None, None, None)

\* whoami::username()
Username == "me"

unwrap_or(opt, default) == IF opt = None THEN default ELSE opt[1]

\* The Server pushed for a Host line (lines 203-223).
ImportedServer(h) ==
    MkServer(h.alias,
             unwrap_or(h.user, Username),
             unwrap_or(h.host_name, h.alias),
             unwrap_or(h.port, 22),
             IF h.identity_file # None THEN Key(h.identity_file[1]) ELSE Agent,
             "Imported")

\* HasName with only the profiles of earlier imports compared.
HasNameImported(list, alias) ==
    \E i \in DOMAIN list : list[i].name = alias /\ list[i].group = "Imported"

\* Line 211: self.servers.iter().any(|s| s.name == host_alias)
HasName(list, alias) == \E i \in DOMAIN list : list[i].name = alias

\* The loop over the lines (lines 195-227).
RECURSIVE ImportHosts(_, _, _)
ImportHosts(list, hosts, count) ==
    IF hosts = <<>> THEN [servers |-> list, count |-> count]
    ELSE LET h == Head(hosts)
         IN IF h.star THEN ImportHosts(list, Tail(hosts), count)
            ELSE IF HasName(list, h.alias)
            THEN ImportHosts(list, Tail(hosts), count)
            ELSE ImportHosts(Append(list, ImportedServer(h)), Tail(hosts), count + 1)

import_ssh_config(list, cfg) ==
    IF cfg.state = "absent" THEN Ok([servers |-> list, count |-> 0])
    ELSE IF cfg.state = "broken" THEN Err
    ELSE Ok(ImportHosts(list, cfg.hosts, 0))

\* Config::import_ssh_config called on the store.
ImportSshConfig ==
    /\ cfgLive
    /\ LET r == import_ssh_config(servers, sshConfig)
       IN IF r.ok
          THEN /\ Len(r.val.servers) <= MaxServers
               /\ servers' = r.val.servers
               /\ result' = Result("import", "Ok", FALSE, "", "", r.val.count)
          ELSE /\ servers' = servers
               /\ result' = Result("import", "Err", FALSE, "", "", 0)
    /\ UNCHANGED <<file, dirExists, cfgLive, master_password, saved, tampered>>
    /\ UNCHANGED <<relayVars, sftpVars, appVars>>

\* ~/.ssh/config files: none, one that does not parse, and Host lines with a
\* wildcard, with an alias twice, and with aliases that profiles have as name.
ImportConfigs ==
    { [state |-> "absent", hosts |-> <<>>],
      [state |-> "broken", hosts |-> <<>>],
      [state |-> "ok", hosts |-> <<>>],
      [state |-> "ok", hosts |-> <<StarHost, WebHost, Db1Host>>],
      [state |-> "ok", hosts |-> <<WebHost, WebHost>>] }

InitImport ==
    /\ file \in {Absent, ServersToJson(<<Db1>>), ServersToJson(<<Web, Web>>)}
    /\ StoreIdle
    /\ RelayIdle
    /\ SftpIdle /\ dest = <<>>
    /\ mainPc = "start"
    /\ appServers = <<>>
    /\ input_mode = "Normal"
    /\ focus = "ServerList"
    /\ auth_type_idx = 0
    /\ selected = None
    /\ should_quit = FALSE
    /\ should_connect = None
    /\ sshConfig \in ImportConfigs
    /\ loaded = <<>>
    /\ lastSaved = <<>>
    /\ mainRet = "none"

NextImport ==
    \/ Load("")
    \/ ImportSshConfig
    \/ \E server \in Profiles : AddServer(server)
    \/ \E index \in 0..MaxServers : RemoveServer(index)

SpecImport == InitImport /\ [][NextImport]_vars

(***************************************************************************)
(* App (app.rs) and main (main.rs:17-137).                                 *)
(*                                                                         *)
(* mainPc: "start"   before Config::load                    (line 18)      *)
(*         "events"  at event::read                         (line 25)      *)
(*         "connect" in the session of should_connect       (lines 108-132)*)
(*         "sftp"    in the transfer of the 't' key         (lines 38-56)  *)
(*         "exited"  main has returned                                     *)
(*                                                                         *)
(* The texts of the six TextAreas of the form are not kept in the state:   *)
(* what they hold when the form is submitted is drawn at the submit.       *)
(***************************************************************************)
FormTexts ==
    {[group |-> "General", name |-> "db1", user |-> "root", host |-> "10.0.0.5",
      port |-> "2222", password_key |-> "hunter2"]}

\* port_input.lines()[0].parse().unwrap_or(22), to a u16
ParsePort(text) ==
    LET n == CASE text = "22" -> 22
               [] text = "2222" -> 2222
               [] text = "70000" -> 70000
               [] OTHER -> -1
    IN IF n >= 0 /\ n <= U16Max THEN n ELSE 22

\* FormFocus::next
FormFocusNext(f) ==
    CASE f = "Group" -> "Name"
      [] f = "Name" -> "User"
      [] f = "User" -> "Host"
      [] f = "Host" -> "Port"
      [] f = "Port" -> "AuthType"
      [] f = "AuthType" -> "PasswordOrKey"
      [] f = "PasswordOrKey" -> "Submit"
      [] f = "Submit" -> "Group"

\* App::new: the first profile is selected if there is one.
AppNewSelected(list) == IF list # <<>> THEN Some(0) ELSE None

\* App::next that wraps one index late.
next_wraps_late(sel, len) ==
    IF len = 0 THEN sel
    ELSE IF sel = None THEN Some(0)
    ELSE IF sel[1] >= len THEN Some(0) ELSE Some(sel[1] + 1)

\* App::next
next(sel, len) ==
    IF len = 0 THEN sel
    ELSE IF sel = None THEN Some(0)
    ELSE IF sel[1] >= len - 1 THEN Some(0) ELSE Some(sel[1] + 1)

\* App::previous
previous(sel, len) ==
    IF len = 0 THEN sel
    ELSE IF sel = None THEN Some(0)
    ELSE IF sel[1] = 0 THEN Some(len - 1) ELSE Some(sel[1] - 1)

\* The Server built by App::save_server from the form.
save_server(texts, idx) ==
    MkServer(texts.name, texts.user, texts.host, ParsePort(texts.port),
             CASE idx = 0 -> Password(texts.password_key)
               [] idx = 1 -> Key(texts.password_key)
               [] OTHER -> Agent,
             texts.group)

\* ImportNeedsSave that never holds.
ImportNeedsSaveNever(count) == FALSE

\* ImportNeedsSave with the count compared to one.
ImportNeedsSaveMany(count) == count > 1

\* main.rs:60: the import is saved when it added a profile.
ImportNeedsSave(count) == count > 0

\* A `?` of the loop returned the error of save.
ExitOnError ==
    /\ mainPc' = "exited"
    /\ mainRet' = "Err"

\* Lines 18-20: Config::load, tui::init, App::new.
MainStart(password) ==
    /\ mainPc = "start"
    /\ LoadConfig(password)
    /\ LET out == LoadOutcome(file, password)
       IN IF out.res = "Ok"
          THEN /\ appServers' = out.servers
               /\ selected' = AppNewSelected(out.servers)
               /\ loaded' = out.servers
               /\ mainPc' = "events"
               /\ mainRet' = mainRet
          ELSE /\ ExitOnError
               /\ UNCHANGED <<appServers, selected, loaded>>
    /\ UNCHANGED <<input_mode, focus, auth_type_idx, should_quit, should_connect,
                   sshConfig, lastSaved>>
    /\ UNCHANGED <<relayVars, sftpVars>>

AtEvent(mode) == mainPc = "events" /\ input_mode = mode

\* 'q': should_quit, break, tui::restore, Ok(()).
KeyQuit ==
    /\ AtEvent("Normal")
    /\ should_quit' = TRUE
    /\ mainPc' = "exited"
    /\ mainRet' = "Ok"
    /\ UNCHANGED <<appServers, input_mode, focus, auth_type_idx, selected,
                   should_connect, sshConfig, loaded, lastSaved>>
    /\ UNCHANGED <<storeVars, relayVars, sftpVars>>

\* 'j' or Down.
KeyNext ==
    /\ AtEvent("Normal")
    /\ selected' = next(selected, Len(appServers))
    /\ UNCHANGED <<mainPc, appServers, input_mode, focus, auth_type_idx, should_quit,
                   should_connect, sshConfig, loaded, lastSaved, mainRet>>
    /\ UNCHANGED <<storeVars, relayVars, sftpVars>>

\* 'k' or Up.
KeyPrevious ==
    /\ AtEvent("Normal")
    /\ selected' = previous(selected, Len(appServers))
    /\ UNCHANGED <<mainPc, appServers, input_mode, focus, auth_type_idx, should_quit,
                   should_connect, sshConfig, loaded, lastSaved, mainRet>>
    /\ UNCHANGED <<storeVars, relayVars, sftpVars>>

\* 'a': open_add_server_popup.
KeyAdd ==
    /\ AtEvent("Normal")
    /\ input_mode' = "Editing"
    /\ focus' = "Group"
    /\ auth_type_idx' = 0
    /\ UNCHANGED <<mainPc, appServers, selected, should_quit, should_connect,
                   sshConfig, loaded, lastSaved, mainRet>>
    /\ UNCHANGED <<storeVars, relayVars, sftpVars>>

\* Enter in Normal mode: should_connect is set if a profile is selected, and
\* the block of lines 108-132 is entered.
KeyEnterNormal ==
    /\ AtEvent("Normal")
    /\ IF selected # None
       THEN should_connect' = selected /\ mainPc' = "connect"
       ELSE UNCHANGED <<should_connect, mainPc>>
    /\ UNCHANGED <<appServers, input_mode, focus, auth_type_idx, selected, should_quit,
                   sshConfig, loaded, lastSaved, mainRet>>
    /\ UNCHANGED <<storeVars, relayVars, sftpVars>>

\* Lines 115-131: the session is over, however it ended.
ConnectDone ==
    /\ mainPc = "connect"
    /\ should_connect' = None
    /\ mainPc' = "events"
    /\ UNCHANGED <<appServers, input_mode, focus, auth_type_idx, selected, should_quit,
                   sshConfig, loaded, lastSaved, mainRet>>
    /\ UNCHANGED <<storeVars, relayVars, sftpVars>>

\* 't' with a profile selected.
KeySftp ==
    /\ AtEvent("Normal")
    /\ selected # None
    /\ mainPc' = "sftp"
    /\ UNCHANGED <<appServers, input_mode, focus, auth_type_idx, selected, should_quit,
                   should_connect, sshConfig, loaded, lastSaved, mainRet>>
    /\ UNCHANGED <<storeVars, relayVars, sftpVars>>

\* Lines 43-55: the transfer is over, Enter was pressed.
SftpDone ==
    /\ mainPc = "sftp"
    /\ mainPc' = "events"
    /\ UNCHANGED <<appServers, input_mode, focus, auth_type_idx, selected, should_quit,
                   should_connect, sshConfig, loaded, lastSaved, mainRet>>
    /\ UNCHANGED <<storeVars, relayVars, sftpVars>>

\* 'i' (lines 58-65).
KeyImport(p1, p2) ==
    /\ AtEvent("Normal")
    /\ LET r == import_ssh_config(servers, sshConfig)
       IN IF ~r.ok
          THEN UNCHANGED <<storeVars, mainPc, appServers, lastSaved, mainRet>>
          ELSE /\ Len(r.val.servers) <= MaxServers
               /\ IF ImportNeedsSave(r.val.count)
                  THEN /\ SaveConfig(r.val.servers, p1, p2)
                       /\ lastSaved' = <<r.val.servers>>
                       /\ IF result'.res = "Ok"
                          THEN /\ appServers' = r.val.servers
                               /\ UNCHANGED <<mainPc, mainRet>>
                          ELSE /\ ExitOnError
                               /\ UNCHANGED appServers
                  ELSE /\ servers' = r.val.servers
                       /\ UNCHANGED <<file, dirExists, cfgLive, master_password,
                                      result, saved, tampered>>
                       /\ UNCHANGED <<mainPc, appServers, lastSaved, mainRet>>
    /\ UNCHANGED <<input_mode, focus, auth_type_idx, selected, should_quit,
                   should_connect, sshConfig, loaded>>
    /\ UNCHANGED <<relayVars, sftpVars>>

\* Any other key in Normal mode.
KeyOtherNormal ==
    /\ AtEvent("Normal")
    /\ UNCHANGED vars

\* Esc: close_popup.
KeyEsc ==
    /\ AtEvent("Editing")
    /\ input_mode' = "Normal"
    /\ focus' = "ServerList"
    /\ UNCHANGED <<mainPc, appServers, auth_type_idx, selected, should_quit,
                   should_connect, sshConfig, loaded, lastSaved, mainRet>>
    /\ UNCHANGED <<storeVars, relayVars, sftpVars>>

\* Tab, or Enter on a field other than Submit: next_form_field.
KeyTab ==
    /\ AtEvent("Editing")
    /\ focus' = FormFocusNext(focus)
    /\ UNCHANGED <<mainPc, appServers, input_mode, auth_type_idx, selected, should_quit,
                   should_connect, sshConfig, loaded, lastSaved, mainRet>>
    /\ UNCHANGED <<storeVars, relayVars, sftpVars>>

KeyEnterField ==
    /\ focus # "Submit"
    /\ KeyTab

\* Enter on Submit (lines 75-77): save_server, config.servers =
\* app.servers.clone(), config.save()?.
SubmitForm(texts, p1, p2) ==
    /\ AtEvent("Editing")
    /\ focus = "Submit"
    /\ Len(appServers) < MaxServers
    /\ appServers' = Append(appServers, save_server(texts, auth_type_idx))
    /\ input_mode' = "Normal"
    /\ focus' = "ServerList"
    /\ SaveConfig(appServers', p1, p2)
    /\ lastSaved' = <<appServers'>>
    /\ IF result'.res = "Ok" THEN UNCHANGED <<mainPc, mainRet>> ELSE ExitOnError
    /\ UNCHANGED <<auth_type_idx, selected, should_quit, should_connect, sshConfig,
                   loaded>>
    /\ UNCHANGED <<relayVars, sftpVars>>

\* Left and Right on the AuthType field.
KeyLeft ==
    /\ AtEvent("Editing")
    /\ focus = "AuthType"
    /\ auth_type_idx' = IF auth_type_idx > 0 THEN auth_type_idx - 1 ELSE auth_type_idx
    /\ UNCHANGED <<mainPc, appServers, input_mode, focus, selected, should_quit,
                   should_connect, sshConfig, loaded, lastSaved, mainRet>>
    /\ UNCHANGED <<storeVars, relayVars, sftpVars>>

KeyRight ==
    /\ AtEvent("Editing")
    /\ focus = "AuthType"
    /\ auth_type_idx' = IF auth_type_idx < 2 THEN auth_type_idx + 1 ELSE auth_type_idx
    /\ UNCHANGED <<mainPc, appServers, input_mode, focus, selected, should_quit,
                   should_connect, sshConfig, loaded, lastSaved, mainRet>>
    /\ UNCHANGED <<storeVars, relayVars, sftpVars>>

\* Any other key in Editing mode: handle_textarea_input.
KeyText ==
    /\ AtEvent("Editing")
    /\ UNCHANGED vars

SshConfigs ==
    { [state |-> "absent", hosts |-> <<>>],
      [state |-> "broken", hosts |-> <<>>],
      [state |-> "ok", hosts |-> <<StarHost, WebHost, Db1Host>>] }

InitMain ==
    /\ file \in {Absent, NotJson, JArr(<<LegacyToJson(Bk)>>)}
    /\ StoreIdle
    /\ RelayIdle
    /\ SftpIdle /\ dest = <<>>
    /\ mainPc = "start"
    /\ appServers = <<>>
    /\ input_mode = "Normal"
    /\ focus = "ServerList"
    /\ auth_type_idx = 0
    /\ selected = None
    /\ should_quit = FALSE
    /\ should_connect = None
    /\ sshConfig \in SshConfigs
    /\ loaded = <<>>
    /\ lastSaved = <<>>
    /\ mainRet = "none"

\* The first entry at the prompts of a save in the main loop: one passphrase;
\* the confirmation is any of them.
TypedFirst(prompts) == IF prompts THEN {"correct-horse"} ELSE {""}

NextMain ==
    \/ \E password \in Typed(Detect(file) = "encrypted") : MainStart(password)
    \/ KeyQuit
    \/ KeyNext
    \/ KeyPrevious
    \/ KeyAdd
    \/ KeyEnterNormal
    \/ ConnectDone
    \/ KeySftp
    \/ SftpDone
    \/ \E p1 \in TypedFirst(master_password = None), p2 \in Typed(master_password = None) :
           KeyImport(p1, p2)
    \/ KeyOtherNormal
    \/ KeyEsc
    \/ KeyTab
    \/ KeyEnterField
    \/ \E texts \in FormTexts,
          p1 \in TypedFirst(master_password = None), p2 \in Typed(master_password = None) :
           SubmitForm(texts, p1, p2)
    \/ KeyLeft
    \/ KeyRight
    \/ KeyText

SpecMain == InitMain /\ [][NextMain]_vars

(***************************************************************************)
(* Properties of the credential store.                                     *)
(***************************************************************************)
LoadedFromSave == result.op = "load" /\ saved # <<>> /\ ~tampered

\* C3: a load of the file written by save, given the passphrase it was saved
\* under, succeeds and yields the saved list, field for field and in order,
\* and holds that passphrase.
C3_RoundTrip ==
    (LoadedFromSave /\ (result.prompted => result.pw = saved[1].pass))
        => /\ result.res = "Ok"
           /\ cfgLive
           /\ servers = saved[1].servers
           /\ master_password = Some(saved[1].pass)

C3_Witness ==
    /\ LoadedFromSave /\ result.res = "Ok"
    /\ Len(servers) = 2 /\ servers[1] = Web /\ servers[2] = Bk

\* C4: a load of the file written by save under S, given another passphrase,
\* fails with the authentication error and returns no Config.
C4_WrongPassphrase ==
    (LoadedFromSave /\ result.pw # saved[1].pass)
        => /\ result.res = "AuthError"
           /\ ~cfgLive
           /\ servers = <<>>
           /\ master_password = None

C4_Witness ==
    /\ LoadedFromSave /\ result.prompted /\ result.pw # saved[1].pass
    /\ saved[1].servers # <<>>

\* C5: a load of a saved file of which one byte of the salt, nonce or
\* ciphertext field was changed, given the right passphrase, fails with the
\* authentication error and no other.
C5_TamperIsAuthError ==
    (result.op = "load" /\ saved # <<>> /\ tampered /\ result.pw = saved[1].pass)
        => result.res = "AuthError"

IsLegacyRecord(j) ==
    /\ j.t = "obj"
    /\ DOMAIN j.v = {"name", "user", "host", "port"}
    /\ HasStr(j.v, "name") /\ HasStr(j.v, "user") /\ HasStr(j.v, "host")
    /\ HasU16(j.v, "port")

IsLegacyFile(c) == c.t = "arr" /\ \A i \in DOMAIN c.v : IsLegacyRecord(c.v[i])

\* C6: a load of a Legacy-shape file returns one profile per record, in
\* order, with the record's four fields, auth Agent and group "General",
\* holds no passphrase and leaves the file as it was; the file changes only
\* in a save.
C6_LegacyMigration ==
    /\ [][(result'.op = "load" /\ IsLegacyFile(file))
            => /\ result'.res = "Ok"
               /\ cfgLive'
               /\ Len(servers') = Len(file.v)
               /\ \A i \in DOMAIN file.v :
                      servers'[i] = [name |-> file.v[i].v["name"].v,
                                     user |-> file.v[i].v["user"].v,
                                     host |-> file.v[i].v["host"].v,
                                     port |-> file.v[i].v["port"].v,
                                     auth_type |-> Agent,
                                     group |-> "General"]
               /\ master_password' = None
               /\ file' = file]_vars
    /\ [][file' # file => result'.op = "save"]_vars

C6_Witness ==
    result.op = "load" /\ IsLegacyFile(file) /\ Len(servers) = 2

\* C7: load reads a file that parses as Current as Current, also when it
\* parses as Legacy too (auth and group are kept), and reaches the
\* passphrase prompt only when neither Current nor Legacy parses.
C7_FormatPriority ==
    [][result'.op = "load"
         => /\ ParseVecServer(file).ok
                => /\ result'.res = "Ok"
                   /\ servers' = ParseVecServer(file).val
                   /\ master_password' = None
                   /\ ~result'.prompted
            /\ result'.prompted
                => ~ParseVecServer(file).ok /\ ~ParseVecLegacy(file).ok]_vars

C7_Witness ==
    /\ result.op = "load"
    /\ ParseVecServer(file).ok /\ ParseVecLegacy(file).ok
    /\ Len(servers) = 2 /\ servers[1].auth_type = Password("hunter2")
    /\ servers[2].group = "Imported"

\* C8: with no config file, load returns an empty list and no passphrase,
\* without prompting and without creating the file.
C8_EmptyStoreLoad ==
    [][(result'.op = "load" /\ file.t = "absent")
         => /\ result'.res = "Ok"
            /\ cfgLive'
            /\ servers' = <<>>
            /\ master_password' = None
            /\ ~result'.prompted
            /\ file'.t = "absent"
            /\ dirExists' = dirExists]_vars

C8_Witness == result.op = "load" /\ file.t = "absent" /\ cfgLive

\* C9: a save with no passphrase held and two different entries returns the
\* mismatch error and leaves the file, the list and the (absent) passphrase
\* as they were.
C9_PassphraseMismatch ==
    [][(result'.op = "save" /\ master_password = None /\ result'.pw # result'.pw2)
         => /\ result'.res = "PassphraseMismatch"
            /\ file' = file
            /\ servers' = servers
            /\ master_password' = None
            /\ cfgLive']_vars

C9_Witness ==
    /\ result.op = "save" /\ result.res = "PassphraseMismatch"
    /\ servers # <<>> /\ file.t = "arr"

C14_SaveWritesWholeList ==
    (result.op = "save" /\ result.res = "Ok")
        => /\ ParseEncryptedConfig(file).ok
           /\ ~ParseVecServer(file).ok /\ ~ParseVecLegacy(file).ok
           /\ LET enc == ParseEncryptedConfig(file).val
                  salt == base64_decode(enc.salt)
                  nonce_bytes == base64_decode(enc.nonce)
                  ciphertext == base64_decode(enc.ciphertext)
              IN /\ salt.ok /\ nonce_bytes.ok /\ ciphertext.ok
                 /\ master_password # None
                 /\ Decrypt(derive_key(master_password[1], salt.val),
                            nonce_bytes.val, ciphertext.val) = Ok(ServersToJson(servers))

\* A save, with the passphrase already held, of a list of two profiles.
C14_Witness ==
    /\ result.op = "save" /\ result.res = "Ok" /\ ~result.prompted
    /\ Len(servers) = 2 /\ servers[1] # servers[2]

C16_PassphraseLifecycle ==
    /\ [][result'.op = "save" => (result'.prompted <=> master_password = None)]_vars
    /\ [][(result'.op = "save" /\ result'.res = "Ok" /\ master_password = None)
            => /\ result'.pw = result'.pw2
               /\ master_password' = Some(result'.pw)]_vars
    /\ [][(result'.op = "load" /\ result'.res = "Ok")
            => master_password' =
                  IF /\ file.t # "absent"
                     /\ ~ParseVecServer(file).ok /\ ~ParseVecLegacy(file).ok
                  THEN Some(result'.pw)
                  ELSE None]_vars
    /\ [][(master_password # None /\ result'.op # "exit")
            => master_password' = master_password]_vars

\* A save of the empty list that did not prompt: the passphrase was held from
\* the load of an Encrypted file or from an earlier save.
C16_Witness ==
    /\ result.op = "save" /\ result.res = "Ok" /\ ~result.prompted
    /\ master_password = Some("correct-horse")
    /\ servers = <<>>

\* C26: add_server and remove_server leave the file, its directory and the
\* held passphrase as they are and return no error; add_server makes the list
\* one longer, with the profiles it had at the indices they had and the new
\* profile last.
C26_AddRemoveFrame ==
    [][result'.op \in {"add", "remove"}
         => /\ file' = file /\ dirExists' = dirExists
            /\ master_password' = master_password
            /\ result'.res = "Ok"
            /\ result'.op = "add"
                 => /\ Len(servers') = Len(servers) + 1
                    /\ \A k \in 1..Len(servers) : servers'[k] = servers[k]
                    /\ servers'[Len(servers')] \in Profiles]_vars

\* A profile was added after another to the list of a store that holds a
\* passphrase and whose file holds the list of the last save.
C26_Witness ==
    /\ result.op = "add" /\ Len(servers) = 2 /\ servers[1] # servers[2]
    /\ master_password # None
    /\ saved # <<>> /\ saved[1].servers # servers
    /\ Detect(file) = "encrypted"

(***************************************************************************)
(* Properties of the session relay.                                        *)
(***************************************************************************)
\* C1: when run_shell has returned, on whatever path, raw mode is off.
C1_RawModeReleased == pc = "idle" => ~rawMode

\* C2: when run_shell has returned on remote EOF, and every byte its reader
\* read from standard input was passed to the echoing channel before that
\* EOF, standard output holds exactly those bytes, in order.
C2_ByteExact == (pc = "idle" /\ ret = "Ok" /\ wrote = fed) => stdout = fed

\* C11: a run_shell call that reached channel.read of its pump loop has, when
\* it has returned, asked the channel to close and waited for the close.
C11_ClosedBeforeIdle == (pc = "idle" /\ chanRead # "none") => closeRes # "none"

InLoop(p) == p \in {"drain", "read", "eof"}

\* C12: the pump loop is left only at the remote's EOF or with a returned
\* I/O error; a reader thread that stops leaves the main thread where it is,
\* stays stopped, and the handoff channel grows only by the send of the
\* running reader of the current call.
C12_PumpStops ==
    /\ [][(InLoop(pc) /\ ~InLoop(pc'))
            => \/ pc' = "close" /\ remoteEof /\ remoteOut = <<>>
               \/ pc' = "idle" /\ ret' = "Err" /\ chanRead' \in {"error", "data"}]_vars
    /\ [][\A s \in DOMAIN readers :
            /\ (readers[s].pc # "stopped" /\ readers'[s].pc = "stopped")
                 => pc' = pc /\ ret' = ret
            /\ readers[s].pc = "stopped" => readers'[s].pc = "stopped"]_vars
    /\ [][Len(handoff') > Len(handoff)
            => \E s \in DOMAIN readers :
                  /\ Connected(s)
                  /\ readers[s].pc = "send" /\ readers'[s].pc = "read"]_vars

\* Standard input has ended and stopped the reader, a byte was written to the
\* channel, the last channel.read would block, and the loop goes on.
C12_Witness ==
    /\ pc = "drain" /\ chanRead = "wouldblock" /\ ~remoteEof
    /\ stdinEof /\ rxLive /\ readers[session].pc = "stopped"
    /\ wrote # <<>>

\* C13: at most one reader thread is at its read of standard input.
C13_OneReader == Cardinality({s \in DOMAIN readers : readers[s].pc = "read"}) <= 1

\* C22 as stated: the pump loop is left for channel.close only in an
\* iteration whose channel.read returned zero bytes.
C22_ExitOnlyOnZeroRead ==
    [][(InLoop(pc) /\ pc' = "close") => chanRead' = "zero"]_vars

\* C22: the pump loop is left for channel.close only when channel.eof() holds,
\* in an iteration whose channel.read returned zero bytes, returned bytes
\* (written to standard output) or would block; from there until run_shell
\* has returned Ok, standard output holds every byte the remote side put on
\* the channel in this call, in order.
C22_NothingLostAtEof ==
    /\ [][(InLoop(pc) /\ pc' = "close")
            => /\ remoteEof' /\ remoteOut' = <<>>
               /\ \/ pc = "read" /\ chanRead' = "zero"
                  \/ pc = "eof" /\ chanRead' \in {"data", "wouldblock"}]_vars
    /\ []((pc \in {"close", "wait"} \/ (pc = "idle" /\ ret = "Ok")) => stdout = sent)

\* The loop was left at the test after the match, in an iteration whose read
\* returned the last bytes the remote side had sent before its EOF.
C22_Witness ==
    /\ pc = "close" /\ chanRead = "data"
    /\ Len(sent) = MaxInput /\ stdout = sent

\* The byte the reader of the current call holds between its read and its send.
InSend == IF readers[session].pc = "send" THEN <<readers[session].buf>> ELSE <<>>

\* C23: channel.read is attempted only with the handoff channel empty; while
\* run_shell runs, the bytes passed to channel.write, followed by the bytes
\* queued and the byte about to be sent, are the bytes its reader read from
\* standard input, in order; a write call takes the head of the queue, and
\* whether the remote takes or refuses the byte the main thread stays in the
\* while-let and run_shell does not return.
C23_DrainBeforeRead ==
    /\ [][(pc = "drain" /\ pc' = "read") => handoff = <<>>]_vars
    /\ [](rxLive => writes \o handoff \o InSend = fed)
    /\ [][writes' # writes /\ pc # "idle"
            => /\ handoff # <<>>
               /\ writes' = Append(writes, Head(handoff))
               /\ handoff' = Tail(handoff)
               /\ remoteOut' \in {remoteOut, Echo(Head(handoff))}
               /\ pc = "drain" /\ pc' = "drain" /\ ret' = ret]_vars

\* Two bytes were drained in order, the remote refused one of them, and the
\* loop went on to channel.read.
C23_Witness ==
    /\ pc = "read" /\ handoff = <<>> /\ ~remoteEof
    /\ Len(writes) = 2 /\ writes = fed /\ Len(sent) = 1

\* C24: once run_shell is running and the remote side has sent EOF, run_shell
\* returns.
C24_RelayReturns == (pc # "idle" /\ remoteEof) ~> (pc = "idle")

\* run_shell has returned Ok after the remote's EOF while its reader is still
\* blocked in stdin.read, with input it never forwarded.
C24_Witness ==
    /\ pc = "idle" /\ ret = "Ok" /\ remoteEof
    /\ session = 1 /\ readers[1].pc = "read" /\ ~stdinEof
    /\ stdout # <<>>

\* C25: a reader whose run_shell call has returned never has a receiver
\* again; a step of it leaves the handoff channel as it is and is one of:
\* stdin.read takes one byte, stdin.read returns EOF or an error and the
\* thread stops, the send of the byte fails and the thread stops; it reads
\* no byte while standard input is empty, and at most one byte in all.
C25_OrphanReaderStops ==
    /\ [][\A s \in DOMAIN readers :
            ~Connected(s)
              => /\ ~(s = session' /\ rxLive')
                 /\ readers'[s] # readers[s]
                      => /\ handoff' = handoff
                         /\ \/ /\ readers[s].pc = "read" /\ readers'[s].pc = "send"
                               /\ stdin # <<>> /\ stdin' = Tail(stdin)
                               /\ readers'[s].buf = Head(stdin)
                            \/ /\ readers[s].pc \in {"read", "send"}
                               /\ readers'[s].pc = "stopped"
                               /\ stdin' = stdin]_vars
    /\ [](\A s \in DOMAIN readers : readers[s].late <= 1)

\* After run_shell returned, its reader read one byte, failed to send it and
\* stopped; the byte reached no channel.
C25_Witness ==
    /\ pc = "idle" /\ ret = "Ok" /\ session = 1 /\ ~stdinEof
    /\ readers[1].pc = "stopped" /\ readers[1].late = 1
    /\ Len(fed) < typed /\ stdin = <<>>

(***************************************************************************)
(* Properties of the file transfer.                                        *)
(***************************************************************************)
\* C17: when run_sftp has returned Ok the destination holds the bytes of the
\* source, all and in order; every chunk read had 1 to 8192 bytes; at every
\* read all that was read before is in the destination; the call returns Ok
\* exactly when a read returned 0.
C17_TransferComplete ==
    /\ xret = "Ok" => dest = Content(srcLen) /\ srcPos = srcLen
    /\ \A i \in DOMAIN chunks : chunks[i] >= 1 /\ chunks[i] <= BufferLen
    /\ xpc = "read" => dest = Content(srcPos)
    /\ eofSeen <=> xret = "Ok"

\* A download of 8193 bytes that took three reads.
C17_Witness ==
    /\ xret = "Ok" /\ direction = "Download"
    /\ srcLen = BufferLen + 1 /\ Len(chunks) = 3

\* C18: at every read of the loop the position of the progress bar is the
\* number of bytes in the destination; finish_with_message is called at most
\* once, exactly in the calls that return Ok, and after a read returned 0.
C18_ProgressAccounting ==
    /\ xpc = "read" => pb.pos = DestLen(dest)
    /\ pb.finished <= 1
    /\ pb.finished = 1 <=> xret = "Ok"
    /\ pb.finished = 1 => eofSeen

\* An upload after two chunks, one of them short.
C18_Witness ==
    /\ xpc = "read" /\ direction = "Upload"
    /\ Len(chunks) = 2 /\ pb.pos = BufferLen + 1

TransferFailed == xret \in {"ReadError", "WriteError"}

\* C19 as stated: after a failed read or write the destination holds the
\* chunks whose write_all returned Ok, and nothing else.
C19_KeepsExactChunks == TransferFailed => dest = Content(written)

\* C19, amended: a failed read or write returns at once, with no finish and
\* nothing read or written after it; the destination holds a prefix of the
\* source: every chunk whose write_all returned Ok and, after a failed write,
\* possibly the first part of the chunk that failed.
C19_KeepsPrefix ==
    /\ [](TransferFailed
            => /\ xpc = "idle"
               /\ pb.finished = 0
               /\ dest = Content(DestLen(dest))
               /\ written <= DestLen(dest)
               /\ xret = "ReadError" => DestLen(dest) = srcPos
               /\ xret = "WriteError" => DestLen(dest) < srcPos)
    /\ [][TransferFailed
            => /\ dest' = dest /\ srcPos' = srcPos /\ chunks' = chunks
               /\ written' = written /\ pb' = pb]_vars

\* The write of the second chunk failed half way: the destination holds the
\* first chunk and half of the second.
C19_Witness ==
    /\ xret = "WriteError"
    /\ written = BufferLen
    /\ DestLen(dest) = BufferLen + BufferLen \div 2

(***************************************************************************)
(* Properties of the main loop.                                            *)
(***************************************************************************)
\* C20: whenever main is at event::read, the list of the store is the list
\* of the last save call (the loaded list, if save was never called); a step
\* of the loop that changes the list of the store or of the App calls save
\* with the changed list.
C20_SavedBeforeNextEvent ==
    /\ [](mainPc = "events"
            => servers = IF lastSaved = <<>> THEN loaded ELSE lastSaved[1])
    /\ [][(mainPc = "events" /\ (servers' # servers \/ appServers' # appServers))
            => /\ lastSaved' = <<servers'>>
               /\ result'.op = "save"]_vars

\* Main is at event::read after a submitted form and an import that each
\* added a profile.
C20_Witness ==
    /\ mainPc = "events" /\ lastSaved # <<>>
    /\ Len(servers) = 2
    /\ servers[1].name = "db1" /\ servers[1].group = "General"
    /\ servers[2].name = "web" /\ servers[2].group = "Imported"

\* C27: while main is at event::read, in a session or in a transfer,
\* app.servers equals config.servers.
C27_UiListIsStoreList ==
    mainPc \in {"events", "connect", "sftp"} => appServers = servers

\* The add form is open again over a list of a submitted and an imported
\* profile.
C27_Witness ==
    /\ mainPc = "events" /\ input_mode = "Editing"
    /\ Len(appServers) = 2 /\ appServers = servers
    /\ appServers[1].group = "General" /\ appServers[2].group = "Imported"

\* C28: a selected index and the index of should_connect are below the length
\* of app.servers, at event::read and in a session or transfer; no key
\* changes the selection while the list is empty.
C28_SelectionInRange ==
    /\ [](mainPc \in {"events", "connect", "sftp"}
            => /\ selected # None => selected[1] < Len(appServers)
               /\ should_connect # None => should_connect[1] < Len(appServers)
               /\ mainPc \in {"connect", "sftp"} => selected # None
               /\ mainPc = "connect" => should_connect = selected)
    /\ [][(mainPc = "events" /\ appServers = <<>>) => selected' = selected]_vars

\* A session was started on the last of two profiles.
C28_Witness ==
    /\ mainPc = "connect" /\ should_connect = Some(1)
    /\ Len(appServers) = 2

(***************************************************************************)
(* Properties of the import.                                               *)
(***************************************************************************)
\* C21: an import that returns Ok(count) keeps the profiles it found, in
\* order, and adds count profiles after them; each added profile has group
\* "Imported" and a name that no profile before it in the list has; an
\* import that follows an import adds nothing and returns 0.
C21_ImportDedupes ==
    /\ [][(result'.op = "import" /\ result'.res = "Ok")
            => /\ Len(servers') = Len(servers) + result'.idx
               /\ SubSeq(servers', 1, Len(servers)) = servers
               /\ \A i \in (Len(servers) + 1)..Len(servers') :
                      /\ servers'[i].group = "Imported"
                      /\ \A j \in 1..(i - 1) : servers'[j].name # servers'[i].name]_vars
    /\ [][(result.op = "import" /\ result.res = "Ok" /\ result'.op = "import")
            => /\ servers' = servers
               /\ result'.res = "Ok" /\ result'.idx = 0]_vars

\* An import over a file that names "web" twice, into a list of one other
\* profile: one profile was added.
C21_Witness ==
    /\ result.op = "import" /\ result.idx = 1
    /\ sshConfig.hosts = <<WebHost, WebHost>>
    /\ Len(servers) = 2 /\ servers[1] = Db1 /\ servers[2].name = "web"

====
